---------------------------- MODULE Spec2Model ----------------------------
(***************************************************************************)
(* State-machine model of app.py, the Flask report generator: the parsing  *)
(* pipeline generar_dataframe, the upload handler index, the download      *)
(* handler generar, the upload directory and the per-session last_file.    *)
(*                                                                         *)
(* Text is a sequence of one-character strings.  A file is the sequence of *)
(* its characters, line feeds included.                                    *)
(***************************************************************************)
EXTENDS Integers, Sequences, FiniteSets, TLC

(***************************************************************************)
(* Text primitives of the Python runtime that app.py calls.                *)
(***************************************************************************)

\* A string literal as a sequence of characters.
Chars(s) == [i \in 1..Len(s) |-> SubSeq(s, i, i)]

\* U+00B2 SUPERSCRIPT TWO, one character; NFKC maps it to the digit 2 and
\* int() rejects it.
SUP2 == "U+00B2"

\* A zero byte, as left in a file by a write past its end.
NUL == "U+0000"

\* Characters str.strip() removes.
Whitespace == {" ", "\n", "\t"}

InSeq(s, x) == \E i \in 1..Len(s) : s[i] = x

IndexOf(s, x) == CHOOSE i \in 1..Len(s) : s[i] = x

\* The least index of s at or after i that holds c, 0 when there is none.
Find(s, c, i) ==
    IF \E k \in i..Len(s) : s[k] = c
    THEN CHOOSE k \in i..Len(s) : s[k] = c /\ \A j \in i..(k - 1) : s[j] # c
    ELSE 0

RECURSIVE LinesFrom(_, _)
LinesFrom(text, i) ==
    IF i > Len(text) THEN <<>>
    ELSE LET n == Find(text, "\n", i)
         IN  IF n = 0 THEN <<SubSeq(text, i, Len(text))>>
             ELSE <<SubSeq(text, i, n)>> \o LinesFrom(text, n + 1)

\* f.readlines(): the lines of the text, each with its line feed.
readlines(text) == LinesFrom(text, 1)

\* str.strip(chars): without the characters of the set at both ends.
StripSet(s, chars) ==
    LET keep == {i \in 1..Len(s) : s[i] \notin chars}
    IN  IF keep = {} THEN <<>>
        ELSE SubSeq(s, CHOOSE i \in keep : \A j \in keep : i <= j,
                       CHOOSE i \in keep : \A j \in keep : j <= i)

\* str.strip()
strip(s) == StripSet(s, Whitespace)

RECURSIVE SplitFrom(_, _, _)
SplitFrom(s, sep, i) ==
    LET n == Find(s, sep, i)
    IN  IF n = 0 THEN <<SubSeq(s, i, Len(s))>>
        ELSE <<SubSeq(s, i, n - 1)>> \o SplitFrom(s, sep, n + 1)

\* str.split(sep): always at least one part.
split(s, sep) == SplitFrom(s, sep, 1)

\* unicodedata.normalize("NFKC", .) on one character of the model's alphabet.
NFKC(c) == IF c = SUP2 THEN "2" ELSE c

\* limpiar_texto: every value is a str here, so it is NFKC of the value.
limpiar_texto(texto) == [i \in 1..Len(texto) |-> NFKC(texto[i])]

(***************************************************************************)
(* int(partes[0]) and datetime.fromtimestamp(ts).  An integer is kept as   *)
(* its sign and its decimal digits, so that values beyond the machine word *)
(* are represented exactly.                                                *)
(***************************************************************************)

Digits == Chars("0123456789")

IsDigit(c) == \E i \in 1..10 : Digits[i] = c

DigitVal(c) == (CHOOSE i \in 1..10 : Digits[i] = c) - 1

\* The literal without surrounding whitespace and without its sign.
IntBody(s) ==
    LET t == strip(s)
    IN  IF t # <<>> /\ Head(t) \in {"+", "-"} THEN Tail(t) ELSE t

\* Whether int(s) returns: digits, single underscores allowed between them.
IntOk(s) ==
    LET b == IntBody(s)
    IN  /\ b # <<>>
        /\ IsDigit(b[1]) /\ IsDigit(b[Len(b)])
        /\ \A i \in 1..Len(b) : IsDigit(b[i]) \/ b[i] = "_"
        /\ \A i \in 1..(Len(b) - 1) : ~(b[i] = "_" /\ b[i + 1] = "_")

RECURSIVE DropZeros(_)
DropZeros(d) == IF d # <<>> /\ Head(d) = 0 THEN DropZeros(Tail(d)) ELSE d

\* int(s) for a literal int() accepts: [neg, mag], mag without leading zeros.
IntVal(s) ==
    LET t == strip(s)
        b == SelectSeq(IntBody(s), IsDigit)
        mag == DropZeros([i \in 1..Len(b) |-> DigitVal(b[i])])
    IN  [neg |-> (Head(t) = "-") /\ mag # <<>>, mag |-> mag]

\* a <= b on digit sequences without leading zeros.
MagLE(a, b) ==
    \/ Len(a) < Len(b)
    \/ /\ Len(a) = Len(b)
       /\ \/ a = b
          \/ \E i \in 1..Len(a) : /\ a[i] < b[i]
                                  /\ \A j \in 1..(i - 1) : a[j] = b[j]

\* The epoch seconds of 0001-01-01 00:00:00 (negated) and of
\* 9999-12-31 23:59:59: datetime.MINYEAR and datetime.MAXYEAR, local zone UTC.
MinTsMag == <<6, 2, 1, 3, 5, 5, 9, 6, 8, 0, 0>>
MaxTsMag == <<2, 5, 3, 4, 0, 2, 3, 0, 0, 7, 9, 9>>

\* Whether datetime.fromtimestamp(n) returns instead of raising.
TsInRange(n) == IF n.neg THEN MagLE(n.mag, MinTsMag) ELSE MagLE(n.mag, MaxTsMag)

\* Quotient and remainder of a digit sequence by 86400, by long division.
RECURSIVE DivDay(_, _, _, _)
DivDay(d, i, q, r) ==
    IF i > Len(d) THEN [q |-> q, r |-> r]
    ELSE LET x == r * 10 + d[i]
         IN  DivDay(d, i + 1, q * 10 + (x \div 86400), x % 86400)

\* Days since 1970-01-01 and second of the day, floor division.
DaySec(n) ==
    LET m == DivDay(n.mag, 1, 0, 0)
    IN  IF ~n.neg THEN [days |-> m.q, secs |-> m.r]
        ELSE IF m.r = 0 THEN [days |-> 0 - m.q, secs |-> 0]
        ELSE [days |-> 0 - m.q - 1, secs |-> 86400 - m.r]

\* The proleptic Gregorian date of a day number.
CivilFromDays(days) ==
    LET z   == days + 719468
        era == z \div 146097
        doe == z - era * 146097
        yoe == (doe - (doe \div 1460) + (doe \div 36524) - (doe \div 146096)) \div 365
        doy == doe - (365 * yoe + (yoe \div 4) - (yoe \div 100))
        mp  == (5 * doy + 2) \div 153
        d   == doy - ((153 * mp + 2) \div 5) + 1
        m   == IF mp < 10 THEN mp + 3 ELSE mp - 9
        y   == yoe + era * 400 + (IF m <= 2 THEN 1 ELSE 0)
    IN  <<y, m, d>>

\* datetime.fromtimestamp(n) for n in range: <<year, month, day, hour, minute, second>>.
fromtimestamp(n) ==
    LET ds == DaySec(n)
    IN  CivilFromDays(ds.days)
        \o <<ds.secs \div 3600, (ds.secs % 3600) \div 60, ds.secs % 60>>

\* The value None / NaT of the fecha_legible column.
NaT == <<>>

\* try: ts = int(partes[0]); fecha = datetime.fromtimestamp(ts)  except: None
fecha_legible(campo) ==
    IF IntOk(campo) /\ TsInRange(IntVal(campo))
    THEN fromtimestamp(IntVal(campo))
    ELSE NaT

(***************************************************************************)
(* generar_dataframe.  A dict is its keys in insertion order and its       *)
(* values; a DataFrame is its column names in order and its rows, each a   *)
(* function from every column name to a cell.                              *)
(***************************************************************************)

\* The cell pandas puts where a row's dict has no such key.
NaN == <<"NaN">>

\* f"col{i}"
ColName(i) == "col" \o ToString(i)

\* fila with the timestamp read from the cleaned col0 instead of partes[0].
fila_col0(linea) ==
    LET partes == split(strip(linea), "|")
        cols   == [i \in 1..Len(partes) |-> ColName(i - 1)]
    IN  [keys |-> Append(cols, "fecha_legible"),
         val  |-> [k \in {cols[i] : i \in 1..Len(partes)} \cup {"fecha_legible"} |->
                      IF k = "fecha_legible"
                      THEN fecha_legible(limpiar_texto(strip(partes[1])))
                      ELSE limpiar_texto(strip(partes[IndexOf(cols, k)]))]]

\* The loop body: the dict fila built from one line of the file.
fila(linea) ==
    LET partes == split(strip(linea), "|")
        cols   == [i \in 1..Len(partes) |-> ColName(i - 1)]
    IN  [keys |-> Append(cols, "fecha_legible"),
         val  |-> [k \in {cols[i] : i \in 1..Len(partes)} \cup {"fecha_legible"} |->
                      IF k = "fecha_legible"
                      THEN fecha_legible(partes[1])
                      ELSE limpiar_texto(strip(partes[IndexOf(cols, k)]))]]

\* datos after the loop: one dict per line of lineas.
datos(lineas) == [k \in 1..Len(lineas) |-> fila(lineas[k])]

RECURSIVE KeysInOrder(_, _, _)
KeysInOrder(ds, k, cols) ==
    IF k > Len(ds) THEN cols
    ELSE KeysInOrder(ds, k + 1,
                     cols \o SelectSeq(ds[k].keys, LAMBDA c : ~InSeq(cols, c)))

\* DataFrame filling the cells a dict lacks with the empty string.
DataFrame_relleno(ds) ==
    LET cols == KeysInOrder(ds, 1, <<>>)
    IN  [columns |-> cols,
         rows    |-> [k \in 1..Len(ds) |->
                        [c \in {cols[i] : i \in 1..Len(cols)} |->
                            IF c \in DOMAIN ds[k].val THEN ds[k].val[c] ELSE <<>>]]]

\* pd.DataFrame(datos): the columns are the keys in order of first appearance,
\* and a row has NaN under every column its dict lacks.
DataFrame(ds) ==
    LET cols == KeysInOrder(ds, 1, <<>>)
    IN  [columns |-> cols,
         rows    |-> [k \in 1..Len(ds) |->
                        [c \in {cols[i] : i \in 1..Len(cols)} |->
                            IF c \in DOMAIN ds[k].val THEN ds[k].val[c] ELSE NaN]]]

\* df[cols]: the named columns, in the order named.
SelectColumns(df, cols) ==
    [columns |-> cols,
     rows    |-> [k \in 1..Len(df.rows) |->
                    [c \in {cols[i] : i \in 1..Len(cols)} |-> df.rows[k][c]]]]

\* "Reordenar columnas": fecha_legible moved right after col0.
Reordenar(df) ==
    IF InSeq(df.columns, "col0") /\ InSeq(df.columns, "fecha_legible")
    THEN LET cols == SelectSeq(df.columns, LAMBDA c : c # "fecha_legible")
             at   == IndexOf(cols, "col0")
         IN  SelectColumns(df, SubSeq(cols, 1, at) \o <<"fecha_legible">>
                                   \o SubSeq(cols, at + 1, Len(cols)))
    ELSE df

\* columnas_finales keeping col3 where col4 is meant.
columnas_finales_col3(df) ==
    SelectSeq(<<"col0", "fecha_legible", "col2", "col3", "col6">>,
              LAMBDA c : InSeq(df.columns, c))

\* "Conservar solo columnas necesarias"
columnas_finales(df) ==
    SelectSeq(<<"col0", "fecha_legible", "col2", "col4", "col6">>,
              LAMBDA c : InSeq(df.columns, c))

\* The mapping of df.rename(columns=...).
NuevoNombre(c) ==
    CASE c = "col0" -> "timestamp"
      [] c = "col2" -> "cola"
      [] c = "col4" -> "evento"
      [] c = "col6" -> "numero_telefono"
      [] OTHER      -> c

\* df.rename(columns={...})
Renombrar(df) ==
    [columns |-> [i \in 1..Len(df.columns) |-> NuevoNombre(df.columns[i])],
     rows    |-> [k \in 1..Len(df.rows) |->
                    [n \in {NuevoNombre(df.columns[i]) : i \in 1..Len(df.columns)} |->
                        df.rows[k][CHOOSE c \in DOMAIN df.rows[k] : NuevoNombre(c) = n]]]]

\* Series.replace(dict) on one cell: the entry of the cell's own value, once.
Reemplazar(tabla, celda) == IF celda \in DOMAIN tabla THEN tabla[celda] ELSE celda

\* Traducir looking the replacement up in the table again.
Traducir_encadenado(df, ev) ==
    IF ev.existe /\ ev.valido /\ InSeq(df.columns, "evento")
    THEN [df EXCEPT !.rows =
            [k \in 1..Len(df.rows) |->
                [df.rows[k] EXCEPT !["evento"] =
                    Reemplazar(ev.tabla, Reemplazar(ev.tabla, @))]]]
    ELSE df

\* The try block around eventos.json: ev is the state of that file, its
\* table loaded only when it exists and holds a JSON object.
Traducir(df, ev) ==
    IF ev.existe /\ ev.valido /\ InSeq(df.columns, "evento")
    THEN [df EXCEPT !.rows =
            [k \in 1..Len(df.rows) |->
                [df.rows[k] EXCEPT !["evento"] = Reemplazar(ev.tabla, @)]]]
    ELSE df

\* The table before the translation step.
SinTraducir(texto) ==
    LET df0 == Reordenar(DataFrame(datos(readlines(texto))))
    IN  Renombrar(SelectColumns(df0, columnas_finales(df0)))

\* generar_dataframe(filepath), for the text of the file and the state of
\* eventos.json.
generar_dataframe(texto, ev) == Traducir(SinTraducir(texto), ev)

(***************************************************************************)
(* allowed_file, and werkzeug's secure_filename as index calls it.         *)
(***************************************************************************)

UPLOAD_FOLDER == Chars("uploads")

ALLOWED_EXTENSIONS == {Chars("txt"), Chars("log"), Chars("csv")}

Mayusculas == Chars("ABCDEFGHIJKLMNOPQRSTUVWXYZ")

Minusculas == Chars("abcdefghijklmnopqrstuvwxyz")

\* str.lower()
lower(s) ==
    [i \in 1..Len(s) |->
        IF InSeq(Mayusculas, s[i]) THEN Minusculas[IndexOf(Mayusculas, s[i])] ELSE s[i]]

\* filename.rsplit(".", 1)[1], for a filename with a dot.
rsplit_ext(filename) ==
    LET k == CHOOSE i \in 1..Len(filename) :
                 filename[i] = "." /\ \A j \in (i + 1)..Len(filename) : filename[j] # "."
    IN  SubSeq(filename, k + 1, Len(filename))

\* allowed_file taking the text after the first dot, split(".")[1].
allowed_file_primera(filename) ==
    IF ~InSeq(filename, ".") THEN TRUE
    ELSE lower(split(filename, ".")[2]) \in ALLOWED_EXTENSIONS

allowed_file(filename) ==
    IF ~InSeq(filename, ".") THEN TRUE
    ELSE lower(rsplit_ext(filename)) \in ALLOWED_EXTENSIONS

\* The characters secure_filename keeps: [A-Za-z0-9_.-].
FilenameChars ==
    {Mayusculas[i] : i \in 1..26} \cup {Minusculas[i] : i \in 1..26}
        \cup {Digits[i] : i \in 1..10} \cup {"_", ".", "-"}

\* "_".join(s.split()): runs of whitespace become one underscore, none at the ends.
JoinWords(s) ==
    LET t    == strip(s)
        idx  == SelectSeq([i \in 1..Len(t) |-> i],
                          LAMBDA i : t[i] \notin Whitespace \/ t[i - 1] \notin Whitespace)
    IN  [k \in 1..Len(idx) |-> IF t[idx[k]] \in Whitespace THEN "_" ELSE t[idx[k]]]

\* werkzeug.utils.secure_filename on an ASCII name.
secure_filename(filename) ==
    LET sinSep == [i \in 1..Len(filename) |->
                      IF filename[i] = "/" THEN " " ELSE filename[i]]
        limpio == SelectSeq(JoinWords(sinSep), LAMBDA c : c \in FilenameChars)
    IN  StripSet(limpio, {".", "_"})

\* filename = secure_filename(file.filename) or "queue_log"
nombre_guardado(filename) ==
    IF secure_filename(filename) = <<>> THEN Chars("queue_log")
    ELSE secure_filename(filename)

\* os.path.join(app.config["UPLOAD_FOLDER"], filename)
filepath_de(filename) == UPLOAD_FOLDER \o <<"/">> \o filename

(***************************************************************************)
(* State.                                                                  *)
(***************************************************************************)
VARIABLES
    eventos,    \* eventos.json: whether it exists, holds an object, and the object
    entrada,    \* the text of the file handed to generar_dataframe
    salida,     \* the DataFrame generar_dataframe returned
    hecho,      \* whether generar_dataframe has returned
    disk,       \* the upload directory: per path, whether a file is there and its bytes
    last_file,  \* session["last_file"] of every session; <<>> when unset
    subida,     \* per session, the file.save(filepath) in progress in POST /
    resp,       \* the response to the last completed request, and its session
    ultimo_ok   \* per session, the file name of its most recent accepted upload

vars == <<eventos, entrada, salida, hecho, disk, last_file, subida, resp, ultimo_ok>>

parseVars == <<eventos, entrada, salida, hecho>>

webVars == <<disk, last_file, subida, resp, ultimo_ok>>

(***************************************************************************)
(* Inputs of the parsing pipeline.                                         *)
(***************************************************************************)

\* Most lines of an input file.
MaxLines == 2

\* Lines of a queue log: full, short, long, blank, padded, with a first
\* field that is no integer, out of range, negative, empty, or not NFKC.
Lineas ==
    { Chars("1700000000|x|queueA|y|EVT1|z|5551234"),
      Chars("abc|x|queueB|y|EVT9|z|5559999"),
      Chars(""),
      Chars("  "),
      Chars("17"),
      Chars(" 17 | x | q a "),
      Chars("-1|x|q|y|EVT2"),
      Chars("|x|q|y|EVT1|z|5"),
      Chars("253402300800|x|q|y|EVT9"),
      Chars("1|a|b|c|EVT2|e|f|g|h"),
      <<SUP2>> \o Chars("|x|k") \o <<SUP2>>,
      Chars("1_0|x||y| EVT1 |") }

\* States of eventos.json: missing, malformed, and three objects, the last
\* of which maps a code to another code of the table.
SinTabla == [c \in {} |-> <<>>]

EventosEstados ==
    { [existe |-> FALSE, valido |-> FALSE, tabla |-> SinTabla],
      [existe |-> TRUE,  valido |-> FALSE, tabla |-> SinTabla],
      [existe |-> TRUE,  valido |-> TRUE,  tabla |-> SinTabla],
      [existe |-> TRUE,  valido |-> TRUE,
       tabla |-> [c \in {Chars("EVT1")} |-> Chars("Login")]],
      [existe |-> TRUE,  valido |-> TRUE,
       tabla |-> [c \in {Chars("EVT1"), Chars("EVT2")} |->
                    IF c = Chars("EVT1") THEN Chars("EVT2") ELSE Chars("Logout")]] }

RECURSIVE TextosHasta(_)
TextosHasta(n) ==
    IF n = 0 THEN {<<>>}
    ELSE LET prev == TextosHasta(n - 1)
         IN  prev \cup {t \o l \o <<"\n">> : t \in prev, l \in Lineas}

\* Files of at most MaxLines lines, the last line with or without its line feed.
Entradas ==
    LET full == TextosHasta(MaxLines)
    IN  full \cup {SubSeq(t, 1, Len(t) - 1) : t \in full \ {<<>>}}

DFVacio == [columns |-> <<>>, rows |-> <<>>]

(***************************************************************************)
(* The parsing pipeline as a state machine: a file and a state of          *)
(* eventos.json are given, generar_dataframe is called once.               *)
(***************************************************************************)

Sessions == {"s1", "s2"}

SubidaNinguna == [fase |-> "idle", filepath |-> <<>>, contenido |-> <<>>,
                  nombre |-> <<>>, pos |-> 0, antes |-> <<>>]

RespNinguna == [sesion |-> "", ruta |-> "", status |-> 0, mensaje |-> "", archivo |-> <<>>,
                tabla |-> DFVacio, formato |-> "", botones |-> FALSE]

ParseInit ==
    /\ eventos \in EventosEstados
    /\ entrada \in Entradas
    /\ salida = DFVacio
    /\ hecho = FALSE
    /\ disk = <<>>
    /\ last_file = [s \in Sessions |-> <<>>]
    /\ subida = [s \in Sessions |-> SubidaNinguna]
    /\ resp = RespNinguna
    /\ ultimo_ok = [s \in Sessions |-> [hay |-> FALSE, nombre |-> <<>>]]

\* One call generar_dataframe(filepath) on the given file.
Parse ==
    /\ ~hecho
    /\ salida' = generar_dataframe(entrada, eventos)
    /\ hecho' = TRUE
    /\ UNCHANGED <<eventos, entrada, webVars>>

ParseNext == Parse

SpecParse == ParseInit /\ [][ParseNext]_vars

(***************************************************************************)
(* Properties of generar_dataframe, under SpecParse.                       *)
(***************************************************************************)

\* The fields of a line, as the loop splits it.
Campos(l) == split(strip(l), "|")

\* Whether the line has a field at position p (from 0).
TienePos(l, p) == Len(Campos(l)) > p

\* The trimmed text of the field at position p.
Recortado(l, p) == strip(Campos(l)[p + 1])

NombresFinales == <<"timestamp", "fecha_legible", "cola", "evento", "numero_telefono">>

\* The input position a final column other than fecha_legible comes from.
PosDe(n) ==
    CASE n = "timestamp"       -> 0
      [] n = "cola"            -> 2
      [] n = "evento"          -> 4
      [] n = "numero_telefono" -> 6

ColumnasDePosicion == {"timestamp", "cola", "evento", "numero_telefono"}

\* The entry of the loaded table for a code, the code itself otherwise.
TraduccionEsperada(v) ==
    IF eventos.existe /\ eventos.valido /\ v \in DOMAIN eventos.tabla
    THEN eventos.tabla[v]
    ELSE v

\* C1: the table has exactly one row per line whose trimmed text is
\* non-empty, in line order: blank lines give no row, and the k-th row is
\* built from the k-th non-empty line.
C1_OneRowPerNonEmptyLine ==
    hecho =>
        LET nv == SelectSeq(readlines(entrada), LAMBDA l : strip(l) # <<>>)
        IN  /\ Len(salida.rows) = Len(nv)
            /\ \A k \in 1..Len(nv) :
                   salida.rows[k]["timestamp"] = limpiar_texto(Recortado(nv[k], 0))

\* The timestamp the first field of a line stands for: its calendar
\* conversion when the field is an integer literal in range, empty otherwise.
FechaEsperada(campo) ==
    IF IntOk(campo) /\ TsInRange(IntVal(campo))
    THEN fromtimestamp(IntVal(campo))
    ELSE NaT

\* C2: every line yields its row whatever its first field is; the row's
\* fecha_legible is the calendar conversion of the first field when that
\* field is an in-range integer and is empty otherwise, and the row's other
\* fields are produced all the same.
C2_FechaLegible ==
    hecho =>
        LET ls == readlines(entrada)
        IN  /\ Len(salida.rows) = Len(ls)
            /\ \A k \in 1..Len(ls) :
                  /\ salida.rows[k]["fecha_legible"] = FechaEsperada(Campos(ls[k])[1])
                  /\ salida.rows[k]["timestamp"] = limpiar_texto(Recortado(ls[k], 0))
                  /\ TienePos(ls[k], 2) =>
                         salida.rows[k]["cola"] = limpiar_texto(Recortado(ls[k], 2))

\* C2 witness: a parsed file with a row whose timestamp converted to
\* 2023-11-14 22:13:20 and a row whose out-of-range first field gave an
\* empty fecha_legible.
C2_Witness ==
    /\ hecho
    /\ \E k \in 1..Len(salida.rows) :
           salida.rows[k]["fecha_legible"] = <<2023, 11, 14, 22, 13, 20>>
    /\ \E k \in 1..Len(salida.rows) :
           /\ salida.rows[k]["timestamp"] = Chars("253402300800")
           /\ salida.rows[k]["fecha_legible"] = NaT

\* The column rules C3 states, with Valor(l, p) the value a column carries
\* for the field at position p of line l.
ColumnasSegun(Valor(_, _)) ==
    LET ls   == readlines(entrada)
        cols == salida.columns
    IN  /\ cols = SelectSeq(NombresFinales, LAMBDA n : InSeq(cols, n))
        /\ \A n \in ColumnasDePosicion :
               InSeq(cols, n) <=> \E k \in 1..Len(ls) : TienePos(ls[k], PosDe(n))
        /\ Len(salida.rows) = Len(ls)
        /\ \A k \in 1..Len(ls) :
              /\ DOMAIN salida.rows[k] = {cols[i] : i \in 1..Len(cols)}
              /\ \A n \in ColumnasDePosicion :
                     TienePos(ls[k], PosDe(n)) =>
                         salida.rows[k][n] =
                             IF n = "evento"
                             THEN TraduccionEsperada(Valor(ls[k], PosDe(n)))
                             ELSE Valor(ls[k], PosDe(n))

\* C3 as stated: the columns are a sub-sequence of the five final names,
\* those of positions 0, 2, 4, 6 present exactly when some line has the
\* position, carrying the trimmed values of those positions (evento through
\* the translation table); no other position appears.
C3_Original == hecho => ColumnasSegun(Recortado)

ValorNormalizado(l, p) == limpiar_texto(Recortado(l, p))

\* C3 amended: as C3, the columns carrying the trimmed and NFKC-normalised
\* values of those positions.
C3_Columnas == hecho => ColumnasSegun(ValorNormalizado)

\* C3 witness: a parsed file whose lines have three fields at most, one of
\* them the line with superscript-two characters, normalised to digits.
C3_Witness ==
    /\ hecho
    /\ salida.columns = <<"timestamp", "fecha_legible", "cola">>
    /\ \E k \in 1..Len(salida.rows) :
           /\ salida.rows[k]["timestamp"] = Chars("2")
           /\ salida.rows[k]["cola"] = Chars("k2")

\* C4 as stated: the row of a line lacks the key of every position the
\* line does not have, whatever the other lines are.
C4_Original ==
    hecho =>
        LET ls == readlines(entrada)
        IN  /\ Len(salida.rows) = Len(ls)
            /\ \A k \in 1..Len(ls) : \A n \in ColumnasDePosicion :
                   ~TienePos(ls[k], PosDe(n)) => n \notin DOMAIN salida.rows[k]

\* C4 amended: the row of a line holds NaN under the column of every
\* position the line does not have and some other line of the file has; it
\* lacks the key only when no line of the file has the position.
C4_FaltantesNaN ==
    hecho =>
        LET ls == readlines(entrada)
        IN  /\ Len(salida.rows) = Len(ls)
            /\ \A k \in 1..Len(ls) : \A n \in ColumnasDePosicion :
                   ~TienePos(ls[k], PosDe(n)) =>
                       IF \E j \in 1..Len(ls) : TienePos(ls[j], PosDe(n))
                       THEN n \in DOMAIN salida.rows[k] /\ salida.rows[k][n] = NaN
                       ELSE n \notin DOMAIN salida.rows[k]

\* C4 witness: a parsed file with a line of fewer than 7 fields whose row
\* has NaN under numero_telefono, and no cola column in a file of which no
\* line has three fields is covered by the one-field files.
C4_Witness ==
    /\ hecho
    /\ \E k \in 1..Len(salida.rows) :
           /\ ~TienePos(readlines(entrada)[k], 6)
           /\ "numero_telefono" \in DOMAIN salida.rows[k]
           /\ salida.rows[k]["numero_telefono"] = NaN

\* C5: every row's evento is the table's entry for the row's event code as
\* it stands before translation when the table was loaded and has the code,
\* and that code otherwise; a missing or malformed eventos.json leaves every
\* code as it is; the entry is not looked up again in the table; no other
\* column and no column name changes.
C5_Traduccion ==
    hecho =>
        LET antes == SinTraducir(entrada)
        IN  /\ salida.columns = antes.columns
            /\ Len(salida.rows) = Len(antes.rows)
            /\ \A k \in 1..Len(antes.rows) : \A c \in DOMAIN antes.rows[k] :
                   salida.rows[k][c] =
                       IF c = "evento"
                       THEN TraduccionEsperada(antes.rows[k][c])
                       ELSE antes.rows[k][c]

\* C5 witness: a parse under the table that maps EVT1 to EVT2 and EVT2 to
\* Logout, with a row of code EVT1 shown as EVT2 and a row whose code EVT9
\* the table lacks.
C5_Witness ==
    /\ hecho
    /\ eventos.valido /\ Chars("EVT2") \in DOMAIN eventos.tabla
    /\ \E k \in 1..Len(salida.rows) :
           /\ "evento" \in DOMAIN salida.rows[k]
           /\ SinTraducir(entrada).rows[k]["evento"] = Chars("EVT1")
           /\ salida.rows[k]["evento"] = Chars("EVT2")
    /\ \E k \in 1..Len(salida.rows) :
           /\ "evento" \in DOMAIN salida.rows[k]
           /\ salida.rows[k]["evento"] = Chars("EVT9")

(***************************************************************************)
(* The web application: POST / and GET / (index), GET /generar/<formato>   *)
(* (generar), the files of the upload directory, and the sessions.         *)
(***************************************************************************)

\* Characters file.save writes at a time.
BufferSize == 8

\* File names clients send.
Nombres ==
    { Chars("../b.LOG"), Chars("_"), Chars("queue_log"),
      Chars("a.exe"), Chars("a.txt.EXE"), Chars("a."), Chars("") }

\* File contents clients send.
Contenidos == { Chars("1|x|q|y|EVT1\n"), Chars("7|z\n") }

\* The value of <formato> in GET /generar/<formato>.
Formatos == {"excel", "csv", "pdf"}

Rutas == {filepath_de(nombre_guardado(n)) : n \in Nombres}

\* No file at a path.  ultimo is the content of the upload that wrote to the
\* path last.
ArchivoNinguno == [existe |-> FALSE, texto |-> <<>>, ultimo |-> <<>>]

EventosLogin ==
    [existe |-> TRUE, valido |-> TRUE,
     tabla |-> [c \in {Chars("EVT1")} |-> Chars("Login")]]

Init ==
    /\ eventos = EventosLogin
    /\ entrada = <<>>
    /\ salida = DFVacio
    /\ hecho = FALSE
    /\ disk = [p \in Rutas |-> ArchivoNinguno]
    /\ last_file = [s \in Sessions |-> <<>>]
    /\ subida = [s \in Sessions |-> SubidaNinguna]
    /\ resp = RespNinguna
    /\ ultimo_ok = [s \in Sessions |-> [hay |-> FALSE, nombre |-> <<>>]]

\* The page index returns: the message, the preview, and whether the
\* download buttons are enabled (session.get("last_file")).
Pagina(s, mensaje, archivo, tabla, lf) ==
    [sesion |-> s, ruta |-> "/", status |-> 200, mensaje |-> mensaje,
     archivo |-> archivo, tabla |-> tabla, formato |-> "", botones |-> lf # <<>>]

\* if file and allowed_file(file.filename): a FileStorage is true when its
\* filename is not empty.
aceptado(nombre) == nombre # <<>> /\ allowed_file(nombre)

\* The page of the else branch: mensaje = "Tipo de archivo no permitido."
PaginaRechazo(s) ==
    Pagina(s, "Tipo de archivo no permitido.", <<>>, DFVacio, last_file[s])

\* open(filepath, "wb") by the upload of contenido: the file exists and is empty.
Abrir(d, fp, contenido) ==
    [d EXCEPT ![fp] = [existe |-> TRUE, texto |-> <<>>, ultimo |-> contenido]]

\* A write of trozo at offset pos of a file; a gap is filled with zero bytes.
EscribirEn(texto, pos, trozo) ==
    LET base == IF pos > Len(texto)
                THEN texto \o [i \in 1..(pos - Len(texto)) |-> NUL]
                ELSE texto
    IN  SubSeq(base, 1, pos) \o trozo
            \o SubSeq(base, pos + Len(trozo) + 1, Len(base))

\* The offset after the write that starts at pos.
Hasta(contenido, pos) ==
    IF pos + BufferSize < Len(contenido) THEN pos + BufferSize ELSE Len(contenido)

\* One write of file.save: the next BufferSize characters at the writer's offset.
Escribir(d, fp, contenido, pos) ==
    [d EXCEPT ![fp] =
        [existe |-> TRUE,
         texto  |-> EscribirEn(d[fp].texto, pos,
                               SubSeq(contenido, pos + 1, Hasta(contenido, pos))),
         ultimo |-> contenido]]

\* The writes of file.save from offset pos to the end of the content.
RECURSIVE EscribirResto(_, _, _, _)
EscribirResto(d, fp, contenido, pos) ==
    IF pos >= Len(contenido) THEN d
    ELSE EscribirResto(Escribir(d, fp, contenido, pos), fp, contenido,
                       Hasta(contenido, pos))

\* df.head(n)
head(df, n) ==
    [df EXCEPT !.rows = SubSeq(df.rows, 1, IF Len(df.rows) < n THEN Len(df.rows) ELSE n)]

\* df.empty
empty(df) == Len(df.rows) = 0 \/ Len(df.columns) = 0

\* The page after a save: the message and the preview of the file on disk.
PaginaSubida(s, nombre, texto, lf) ==
    LET df == generar_dataframe(texto, eventos)
    IN  Pagina(s, "Archivo subido con exito.", nombre_guardado(nombre),
               IF ~empty(df) THEN head(df, 20) ELSE DFVacio, lf)

\* index_post storing the path only in a session that has none yet.
index_post_primero(s, nombre, contenido) ==
    /\ \A t \in Sessions : subida[t].fase = "idle"
    /\ IF aceptado(nombre)
       THEN LET fp == filepath_de(nombre_guardado(nombre))
                d  == EscribirResto(Abrir(disk, fp, contenido), fp, contenido, 0)
                lf == IF last_file[s] = <<>> THEN fp ELSE last_file[s]
            IN  /\ disk' = d
                /\ last_file' = [last_file EXCEPT ![s] = lf]
                /\ ultimo_ok' = [ultimo_ok EXCEPT ![s] = [hay |-> TRUE, nombre |-> nombre]]
                /\ resp' = PaginaSubida(s, nombre, d[fp].texto, lf)
       ELSE /\ resp' = PaginaRechazo(s)
            /\ UNCHANGED <<disk, last_file, ultimo_ok>>
    /\ UNCHANGED <<subida, parseVars>>

\* index, POST with a file part, run from request to response.
index_post(s, nombre, contenido) ==
    /\ \A t \in Sessions : subida[t].fase = "idle"
    /\ IF aceptado(nombre)
       THEN LET fp == filepath_de(nombre_guardado(nombre))
                d  == EscribirResto(Abrir(disk, fp, contenido), fp, contenido, 0)
            IN  /\ disk' = d
                /\ last_file' = [last_file EXCEPT ![s] = fp]
                /\ ultimo_ok' = [ultimo_ok EXCEPT ![s] = [hay |-> TRUE, nombre |-> nombre]]
                /\ resp' = PaginaSubida(s, nombre, d[fp].texto, fp)
       ELSE /\ resp' = PaginaRechazo(s)
            /\ UNCHANGED <<disk, last_file, ultimo_ok>>
    /\ UNCHANGED <<subida, parseVars>>

\* index on GET, and on a POST with no file part: the page alone.
index_sin_archivo(s) ==
    /\ resp' = Pagina(s, "", <<>>, DFVacio, last_file[s])
    /\ UNCHANGED <<disk, last_file, subida, ultimo_ok, parseVars>>

\* generar_reporte_memoria(df, formato): the bytes, as the writer used and
\* the table written.
generar_reporte_memoria(df, formato) ==
    [escritor |-> IF formato = "excel" THEN "xlsx" ELSE "csv", tabla |-> df]

\* generar without the os.path.exists test, parsing a missing file as empty.
generar_sin_exists(s, formato) ==
    /\ LET fp == last_file[s]
       IN  IF fp = <<>>
           THEN resp' = [sesion |-> s, ruta |-> "/generar", status |-> 400,
                         mensaje |-> "Primero debes subir un archivo.",
                         archivo |-> <<>>, tabla |-> DFVacio, formato |-> "",
                         botones |-> FALSE]
           ELSE LET archivo == generar_reporte_memoria(
                                   generar_dataframe(disk[fp].texto, eventos), formato)
                IN  resp' = [sesion |-> s, ruta |-> "/generar", status |-> 200,
                             mensaje |-> "",
                             archivo |-> IF formato = "excel"
                                         THEN Chars("reporte.xlsx")
                                         ELSE Chars("reporte.csv"),
                             tabla |-> archivo.tabla, formato |-> archivo.escritor,
                             botones |-> FALSE]
    /\ UNCHANGED <<disk, last_file, subida, ultimo_ok, parseVars>>

\* generar(formato)
generar(s, formato) ==
    /\ LET fp == last_file[s]
       IN  IF fp = <<>> \/ ~disk[fp].existe
           THEN resp' = [sesion |-> s, ruta |-> "/generar", status |-> 400,
                         mensaje |-> "Primero debes subir un archivo.",
                         archivo |-> <<>>, tabla |-> DFVacio, formato |-> "",
                         botones |-> FALSE]
           ELSE LET archivo == generar_reporte_memoria(
                                   generar_dataframe(disk[fp].texto, eventos), formato)
                IN  resp' = [sesion |-> s, ruta |-> "/generar", status |-> 200,
                             mensaje |-> "",
                             archivo |-> IF formato = "excel"
                                         THEN Chars("reporte.xlsx")
                                         ELSE Chars("reporte.csv"),
                             tabla |-> archivo.tabla, formato |-> archivo.escritor,
                             botones |-> FALSE]
    /\ UNCHANGED <<disk, last_file, subida, ultimo_ok, parseVars>>

\* The operator of the host removes an uploaded file no request is writing.
borrar(p) ==
    /\ disk[p].existe
    /\ \A s \in Sessions : subida[s].fase = "idle" \/ subida[s].filepath # p
    /\ disk' = [disk EXCEPT ![p] = ArchivoNinguno]
    /\ UNCHANGED <<last_file, subida, resp, ultimo_ok, parseVars>>

\* Requests handled one at a time, each from request to response.
Next ==
    \/ \E s \in Sessions, n \in Nombres, c \in Contenidos : index_post(s, n, c)
    \/ \E s \in Sessions : index_sin_archivo(s)
    \/ \E s \in Sessions, f \in Formatos : generar(s, f)
    \/ \E p \in Rutas : borrar(p)

Spec == Init /\ [][Next]_vars

(***************************************************************************)
(* The same handlers with requests of different clients interleaved at the *)
(* file-system calls of file.save and generar_dataframe: the open that     *)
(* truncates, each write, the return of the save, the read of the preview. *)
(***************************************************************************)

\* File names and formats of the interleaved runs.
NombresConc == { Chars("../b.LOG"), Chars("a.exe") }

FormatosConc == {"csv"}

\* index, POST with a file part: the test of the file name and, for an
\* accepted name, the open(filepath, "wb") of file.save.
index_post_abrir(s, nombre, contenido) ==
    /\ subida[s].fase = "idle"
    /\ IF aceptado(nombre)
       THEN LET fp == filepath_de(nombre_guardado(nombre))
            IN  /\ disk' = Abrir(disk, fp, contenido)
                /\ subida' = [subida EXCEPT ![s] =
                                [fase |-> "write", filepath |-> fp,
                                 contenido |-> contenido, nombre |-> nombre,
                                 pos |-> 0, antes |-> disk[fp].texto]]
                /\ UNCHANGED <<last_file, resp, ultimo_ok>>
       ELSE /\ resp' = PaginaRechazo(s)
            /\ UNCHANGED <<disk, last_file, subida, ultimo_ok>>
    /\ UNCHANGED parseVars

\* file.save: one write.
index_post_escribir(s) ==
    /\ subida[s].fase = "write"
    /\ subida[s].pos < Len(subida[s].contenido)
    /\ disk' = Escribir(disk, subida[s].filepath, subida[s].contenido, subida[s].pos)
    /\ subida' = [subida EXCEPT ![s].pos = Hasta(subida[s].contenido, subida[s].pos)]
    /\ UNCHANGED <<last_file, resp, ultimo_ok, parseVars>>

\* file.save returns; session["last_file"] = filepath.
index_post_guardado(s) ==
    /\ subida[s].fase = "write"
    /\ subida[s].pos = Len(subida[s].contenido)
    /\ last_file' = [last_file EXCEPT ![s] = subida[s].filepath]
    /\ ultimo_ok' = [ultimo_ok EXCEPT ![s] = [hay |-> TRUE, nombre |-> subida[s].nombre]]
    /\ subida' = [subida EXCEPT ![s].fase = "saved"]
    /\ UNCHANGED <<disk, resp, parseVars>>

\* index, after the save: generar_dataframe(filepath) reads the file as it
\* is on disk now; the page.
index_post_vista(s) ==
    /\ subida[s].fase = "saved"
    /\ resp' = PaginaSubida(s, subida[s].nombre, disk[subida[s].filepath].texto,
                            last_file[s])
    /\ subida' = [subida EXCEPT ![s] = SubidaNinguna]
    /\ UNCHANGED <<disk, last_file, ultimo_ok, parseVars>>

NextConc ==
    \/ \E s \in Sessions, n \in NombresConc, c \in Contenidos : index_post_abrir(s, n, c)
    \/ \E s \in Sessions : index_post_escribir(s)
    \/ \E s \in Sessions : index_post_guardado(s)
    \/ \E s \in Sessions : index_post_vista(s)
    \/ \E s \in Sessions : index_sin_archivo(s)
    \/ \E s \in Sessions, f \in FormatosConc : generar(s, f)

SpecConc == Init /\ [][NextConc]_vars

(***************************************************************************)
(* Properties of the request handlers.                                     *)
(***************************************************************************)

\* The path a session's most recent accepted upload was saved at.
RutaDe(u) == IF u.hay THEN filepath_de(nombre_guardado(u.nombre)) ELSE <<>>

\* C6: GET /generar/<formato> answers 400 with its message and no export
\* exactly when the session has no stored path or the file of the stored
\* path is gone; otherwise it answers with the export of that file.  A
\* session that never uploaded with success gets 400; a session whose last
\* accepted upload is still on disk gets the export.
C6_Descarga ==
    [][\A s \in Sessions, f \in Formatos :
          generar(s, f) =>
              LET fp    == last_file[s]
                  falta == fp = <<>> \/ ~disk[fp].existe
              IN  /\ resp'.sesion = s /\ resp'.ruta = "/generar"
                  /\ (resp'.status = 400) <=> falta
                  /\ falta => /\ resp'.mensaje = "Primero debes subir un archivo."
                              /\ resp'.tabla = DFVacio
                              /\ resp'.formato = ""
                  /\ ~falta => /\ resp'.status = 200
                               /\ resp'.formato \in {"xlsx", "csv"}
                               /\ resp'.tabla = generar_dataframe(disk[fp].texto, eventos)
                  /\ ~ultimo_ok[s].hay => resp'.status = 400
                  /\ (ultimo_ok[s].hay /\ disk[RutaDe(ultimo_ok[s])].existe) =>
                         resp'.status = 200
                  /\ disk' = disk
      ]_vars

\* C6 witness: a download answered 400 for a session that had uploaded with
\* success and whose file was removed since.
C6_Witness ==
    /\ resp.ruta = "/generar" /\ resp.status = 400
    /\ ultimo_ok[resp.sesion].hay
    /\ last_file[resp.sesion] # <<>>
    /\ ~disk[last_file[resp.sesion]].existe

\* The text after the last dot of a file name that has a dot.
UltimaExtension(n) ==
    LET k == CHOOSE i \in 1..Len(n) : n[i] = "." /\ ~InSeq(SubSeq(n, i + 1, Len(n)), ".")
    IN  SubSeq(n, k + 1, Len(n))

\* A file name with a dot whose last extension, case ignored, is not allowed.
ExtensionAjena(n) ==
    InSeq(n, ".") /\ lower(UltimaExtension(n)) \notin {Chars("txt"), Chars("log"), Chars("csv")}

\* What a POST / with file name n does, given the names that are turned
\* down and the names that are accepted: a name turned down shows the
\* warning and changes no file and no session; an accepted name is saved,
\* stored in the session and acknowledged.
SubidaSegun(Rechaza(_), Acepta(_)) ==
    \A s \in Sessions, n \in Nombres, c \in Contenidos :
        index_post(s, n, c) =>
            /\ Rechaza(n) =>
                  /\ resp' = [sesion |-> s, ruta |-> "/", status |-> 200,
                              mensaje |-> "Tipo de archivo no permitido.",
                              archivo |-> <<>>, tabla |-> DFVacio, formato |-> "",
                              botones |-> last_file[s] # <<>>]
                  /\ disk' = disk
                  /\ last_file' = last_file
                  /\ ultimo_ok' = ultimo_ok
            /\ Acepta(n) =>
                  /\ resp'.mensaje = "Archivo subido con exito."
                  /\ last_file'[s] # <<>>
                  /\ disk'[last_file'[s]].existe
                  /\ disk'[last_file'[s]].texto = c

SinPunto(n) == ~InSeq(n, ".")

\* C7 as stated: a name with a dot and a last extension outside
\* {txt, log, csv} gets the warning and changes nothing; every name with no
\* dot is accepted.
C7_Original == [][SubidaSegun(ExtensionAjena, SinPunto)]_vars

ExtensionAjenaOVacio(n) == ExtensionAjena(n) \/ n = <<>>

SinPuntoNoVacio(n) == n # <<>> /\ ~InSeq(n, ".")

\* C7 amended: a name with a dot and a last extension outside
\* {txt, log, csv}, and the empty name, get the warning and change nothing;
\* every non-empty name with no dot is accepted.
C7_Rechazo == [][SubidaSegun(ExtensionAjenaOVacio, SinPuntoNoVacio)]_vars

\* C7 witness: the warning page answered to a session whose stored path,
\* set by an earlier upload, is still there with its file.
C7_Witness ==
    /\ resp.ruta = "/" /\ resp.mensaje = "Tipo de archivo no permitido."
    /\ resp.botones
    /\ last_file[resp.sesion] = RutaDe(ultimo_ok[resp.sesion])
    /\ disk[last_file[resp.sesion]].existe

\* C8: last_file is the path of the session's most recent accepted upload,
\* unset before the first one; only an accepted upload of the session
\* changes it; a download parses the file at that path.
C8_UltimaSubida ==
    [][/\ \A s \in Sessions : last_file'[s] = RutaDe(ultimo_ok'[s])
       /\ \A s \in Sessions :
              last_file'[s] # last_file[s] =>
                  \E n \in Nombres, c \in Contenidos :
                      /\ index_post(s, n, c)
                      /\ ~ExtensionAjenaOVacio(n)
                      /\ last_file'[s] = filepath_de(nombre_guardado(n))
       /\ \A s \in Sessions, f \in Formatos :
              (generar(s, f) /\ resp'.status = 200) =>
                  resp'.tabla =
                      generar_dataframe(disk[RutaDe(ultimo_ok[s])].texto, eventos)
      ]_vars

\* C8 witness: a download by a session that uploaded to one path and then
\* to another, answered with the table of the second file while the first
\* file, of another content, is still on disk.
C8_Witness ==
    /\ resp.ruta = "/generar" /\ resp.status = 200
    /\ \A t \in Sessions \ {resp.sesion} : ~ultimo_ok[t].hay
    /\ \E p \in Rutas :
           /\ p # last_file[resp.sesion]
           /\ disk[p].existe
           /\ disk[p].texto # disk[last_file[resp.sesion]].texto
    /\ resp.tabla = generar_dataframe(disk[last_file[resp.sesion]].texto, eventos)

(***************************************************************************)
(* Properties of interleaved requests, under SpecConc.                     *)
(***************************************************************************)

\* Whether the text read at fp is one complete content for every upload
\* that is rewriting fp at that moment: the content before that upload, or
\* a content as a client sent it.
LecturaEntera(fp) ==
    \A t \in Sessions :
        (subida[t].fase = "write" /\ subida[t].filepath = fp) =>
            disk[fp].texto \in {subida[t].antes} \cup Contenidos

\* C9: a download or preview that reads the stored file while an upload
\* rewrites the same path parses one complete uploaded content, the one
\* before that upload or the one after it, never a truncated or mixed file.
C9_LecturaEntera ==
    [][/\ \A s \in Sessions, f \in FormatosConc :
              (generar(s, f) /\ resp'.status = 200) => LecturaEntera(last_file[s])
       /\ \A s \in Sessions :
              index_post_vista(s) => LecturaEntera(subida[s].filepath)
      ]_vars

\* No upload is writing to the path.
EnReposo(sub, p) == \A s \in Sessions : sub[s].fase # "write" \/ sub[s].filepath # p

\* C10: once the uploads to a path have completed, its file holds exactly
\* the content of the upload that wrote last, and a download by a session
\* whose stored path it is exports that content.
C10_UltimaEscrituraGana ==
    [][/\ \A p \in Rutas :
              (disk'[p].existe /\ EnReposo(subida', p)) =>
                  disk'[p].texto = disk'[p].ultimo
       /\ \A s \in Sessions, f \in FormatosConc :
              (generar(s, f) /\ resp'.status = 200 /\ EnReposo(subida, last_file[s])) =>
                  resp'.tabla = generar_dataframe(disk[last_file[s]].ultimo, eventos)
      ]_vars

=============================================================================
